---- MODULE Spec2Model ----
(***************************************************************************)
(* A model of donutbot (src/donutbot/bot.py): the partitioner              *)
(* _generate_donut, the overlap detector _are_donuts_overlapping, and the  *)
(* propose/confirm workflow of the DonutBot plugin over the Matrix room    *)
(* state event net.hyperflux.donutbot.donut_state.                         *)
(*                                                                         *)
(* Three specifications share the module:                                  *)
(*   SpecGen      runs _generate_donut statement by statement on inputs    *)
(*                drawn from bounded sets;                                 *)
(*   SpecOverlap  applies _are_donuts_overlapping to pairs of donuts;      *)
(*   Spec         the bot: one action per command handler, plus the        *)
(*                room's membership changes.                               *)
(***************************************************************************)
EXTENDS Integers, Sequences, FiniteSets, TLC

VARIABLES
    \* ---- _generate_donut, statement by statement
    member_list,      \* the argument member_list: a sequence of SimpleMember
    group_size,       \* the argument group_size: an integer
    random_list,      \* the local random_list
    donut,            \* the local donut
    gen_pc,           \* "start" | "loop" | "done"
    \* ---- _are_donuts_overlapping on a pair of donuts
    d1, d2,           \* the two arguments
    ov_ab, ov_ba,     \* the result on (d1, d2) and on (d2, d1)
    ov_calls,         \* the calls made so far: "ab", "ba"
    \* ---- the bot
    joined,           \* room -> (user id -> display name, or NotJoined)
    donut_state,      \* room -> the stored state event content, or None (MNotFound)
    proposed_donuts,  \* room -> the proposed donut, or None (no key in the dict)
    last_proposal,    \* room -> the donut the last completed `new` proposed (history)
    hung,             \* TRUE once a handler loops forever
    evt,              \* what the last handled command did
    nsteps,           \* commands handled and membership changes made so far
    \* ---- confirm handlers running as concurrent asyncio tasks
    tasks             \* task -> where it is in confirm, and its locals

genVars == <<member_list, group_size, random_list, donut, gen_pc>>
ovVars  == <<d1, d2, ov_ab, ov_ba, ov_calls>>
botVars == <<joined, donut_state, proposed_donuts, last_proposal, hung, evt, nsteps>>
concVars == <<tasks>>
vars    == <<genVars, ovVars, botVars, concVars>>

\* ------------------------------------------------------------------ bounds

\* _generate_donut: the longest member list, the largest group size and how far
\* below 1 the group size goes (_str_to_int accepts any integer)
MaxGenMembers == 5
MaxGroupSize == 3
BelowOne == 2

\* _are_donuts_overlapping: the user ids its donuts are built from
MaxOvIds == 3

\* the bot: the users besides the bot, the largest group_size argument, and the
\* commands handled plus membership changes made in one run
MaxUsers == 2
MaxBotGroupSize == 1
MaxSteps == 4
\* the commands handled after a start with rounds already stored
StoredSteps == 2
\* the confirm commands that are handled concurrently
MaxTasks == 2

\* ------------------------------------------------------------------ data

\* The display names in use. A user's default name is the first one.
Names == {"n", "m"}
DefaultName == "n"

\* SimpleMember(display_name, mxid), a NamedTuple: equal when both fields are
SimpleMember(display_name, mxid) == [display_name |-> display_name, mxid |-> mxid]

Min(a, b) == IF a < b THEN a ELSE b

Range(s) == {s[i] : i \in 1..Len(s)}

\* The mxids of a group
Mxids(group) == {m.mxid : m \in group}

\* Some one order of a finite set: what iterating a Python set yields
RECURSIVE SetToSeq(_)
SetToSeq(S) ==
    IF S = {} THEN <<>>
    ELSE LET x == CHOOSE y \in S : TRUE
         IN  <<x>> \o SetToSeq(S \ {x})

\* The list s without its i-th element
Without(s, i) == SubSeq(s, 1, i - 1) \o SubSeq(s, i + 1, Len(s))

\* Every order of the list s: what random.shuffle can leave in it
RECURSIVE Shuffles(_)
Shuffles(s) ==
    IF s = <<>> THEN {<<>>}
    ELSE UNION {{<<s[i]>> \o t : t \in Shuffles(Without(s, i))} : i \in 1..Len(s)}

\* An optional value: Absent is Python's None (or a missing key), Some(x) is x
Absent == <<>>
Some(x) == <<x>>

\* ------------------------------------------------------------------ _generate_donut

\* Faulty variant of LoopBody: the folded remainder is cleared but not added
LoopBodyNoFoldedMembers(rl, gs, d) ==
    LET n     == IF Min(gs, Len(rl)) > 0 THEN Min(gs, Len(rl)) ELSE 0
        rest  == SubSeq(rl, 1, Len(rl) - n)
        group == {rl[i] : i \in (Len(rl) - n + 1)..Len(rl)}
        fold  == 0 < Len(rest) /\ Len(rest) <= (gs \div 2)
    IN  [random_list |-> IF fold THEN <<>> ELSE rest,
         donut       |-> d \cup {group}]

\* Faulty variant of LoopBody: folds only a remainder below floor(group_size/2)
LoopBodyStrictFold(rl, gs, d) ==
    LET n     == IF Min(gs, Len(rl)) > 0 THEN Min(gs, Len(rl)) ELSE 0
        rest  == SubSeq(rl, 1, Len(rl) - n)
        group == {rl[i] : i \in (Len(rl) - n + 1)..Len(rl)}
        fold  == 0 < Len(rest) /\ Len(rest) < (gs \div 2)
    IN  [random_list |-> IF fold THEN <<>> ELSE rest,
         donut       |-> d \cup {IF fold THEN group \cup Range(rest) ELSE group}]

\* Faulty variant of LoopBody: pops one member less than min(group_size, len)
LoopBodyPopsOneLess(rl, gs, d) ==
    LET n     == IF Min(gs, Len(rl)) > 1 THEN Min(gs, Len(rl)) - 1 ELSE 0
        rest  == SubSeq(rl, 1, Len(rl) - n)
        group == {rl[i] : i \in (Len(rl) - n + 1)..Len(rl)}
        fold  == 0 < Len(rest) /\ Len(rest) <= (gs \div 2)
    IN  [random_list |-> IF fold THEN <<>> ELSE rest,
         donut       |-> d \cup {IF fold THEN group \cup Range(rest) ELSE group}]

\* One pass of the while body (lines 221-227) from random_list rl and donut d:
\* pop min(group_size, len) members off the end into a group, fold a remainder
\* of at most floor(group_size/2) into it, add the group to the donut.
\* range(n) is empty for n <= 0.
LoopBody(rl, gs, d) ==
    LET n     == IF Min(gs, Len(rl)) > 0 THEN Min(gs, Len(rl)) ELSE 0
        rest  == SubSeq(rl, 1, Len(rl) - n)
        group == {rl[i] : i \in (Len(rl) - n + 1)..Len(rl)}
        fold  == 0 < Len(rest) /\ Len(rest) <= (gs \div 2)
    IN  [random_list |-> IF fold THEN <<>> ELSE rest,
         donut       |-> d \cup {IF fold THEN group \cup Range(rest) ELSE group}]

\* The member lists and group sizes _generate_donut is run on
GenIds == 1..MaxGenMembers
GenMemberLists ==
    {SetToSeq({SimpleMember(DefaultName, u) : u \in S}) : S \in SUBSET GenIds}
GenSizes == (1 - BelowOne)..MaxGroupSize

\* lines 217-219: copy, shuffle, empty donut
GenShuffle ==
    /\ gen_pc = "start"
    /\ random_list' \in Shuffles(member_list)
    /\ donut' = {}
    /\ gen_pc' = "loop"
    /\ UNCHANGED <<member_list, group_size, ovVars, botVars, concVars>>

\* lines 220-227: the while test holds, one pass of the body
GenIterate ==
    /\ gen_pc = "loop"
    /\ Len(random_list) > 0
    /\ LET after == LoopBody(random_list, group_size, donut)
       IN  /\ random_list' = after.random_list
           /\ donut' = after.donut
    /\ UNCHANGED <<member_list, group_size, gen_pc, ovVars, botVars, concVars>>

\* lines 220, 228: the while test fails, return donut
GenReturn ==
    /\ gen_pc = "loop"
    /\ Len(random_list) = 0
    /\ gen_pc' = "done"
    /\ UNCHANGED <<member_list, group_size, random_list, donut, ovVars, botVars, concVars>>

GenIdle ==
    /\ member_list = <<>>
    /\ group_size = 2
    /\ random_list = <<>>
    /\ donut = {}
    /\ gen_pc = "done"

\* ------------------------------------------------------------------ _are_donuts_overlapping

\* Faulty variant of AreDonutsOverlapping: a group contained in a group of d2 counts
AreDonutsOverlappingSubset(a, b) ==
    \E group \in a : \E other \in b : group \subseteq other

\* lines 230-234: some group of d1 is an element of d2. Groups are frozensets of
\* SimpleMember tuples, so `group in d2` compares display_name and mxid.
AreDonutsOverlapping(a, b) ==
    \E group \in a : group \in b

\* The donuts over the ids 1..MaxOvIds: sets of non-empty groups in which every
\* id occurs at most once, under any display name
OvIds == 1..MaxOvIds
OvIdDonuts ==
    {p \in SUBSET (SUBSET OvIds \ {{}}) : \A g, h \in p : g # h => g \cap h = {}}
OvDonuts ==
    {{{SimpleMember(nm[u], u) : u \in g} : g \in p} : p \in OvIdDonuts, nm \in [OvIds -> Names]}

OverlapAB ==
    /\ "ab" \notin ov_calls
    /\ ov_ab' = AreDonutsOverlapping(d1, d2)
    /\ ov_calls' = ov_calls \cup {"ab"}
    /\ UNCHANGED <<d1, d2, ov_ba, genVars, botVars, concVars>>

OverlapBA ==
    /\ "ba" \notin ov_calls
    /\ ov_ba' = AreDonutsOverlapping(d2, d1)
    /\ ov_calls' = ov_calls \cup {"ba"}
    /\ UNCHANGED <<d1, d2, ov_ab, genVars, botVars, concVars>>

OvIdle ==
    /\ d1 = {}
    /\ d2 = {}
    /\ ov_ab = FALSE
    /\ ov_ba = FALSE
    /\ ov_calls = {"ab", "ba"}

\* ------------------------------------------------------------------ the bot: data

\* the bot handles commands in one room
Rooms == {"!donut"}

\* the users that may be in the room, and the bot's own mxid (evt.client.mxid)
UserIds == 1..MaxUsers
BotId == 0
NotJoined == "-"

\* line 134, 190: the group size when the argument is missing or unparseable
DefaultGroupSize == 2
\* line 139: range(10)
RetryRange == 10

\* lines 34-38: the group_size argument after _str_to_int: None, or any integer
GroupSizeArgs == {Absent} \cup {Some(n) : n \in 0..MaxBotGroupSize}

\* lines 134, 190
EffectiveGroupSize(arg) == IF arg # Absent THEN arg[1] ELSE DefaultGroupSize

\* Faulty variant of GetMembers: the bot is not filtered out
GetMembersWithBot(r) ==
    SetToSeq({SimpleMember(joined[r][u], u) :
                 u \in {v \in DOMAIN joined[r] : joined[r][v] # NotJoined}})

\* lines 45-51: the joined members of the room without the bot itself, as a list
GetMembers(r) ==
    SetToSeq({SimpleMember(joined[r][u], u) :
                 u \in {v \in DOMAIN joined[r] : joined[r][v] # NotJoined /\ v # BotId}})

\* lines 216-228 run to the end from random_list rl: Some(donut) when the loop
\* ends, Absent when it never does (a pass that pops nothing leaves the list as
\* it was, and every later pass does the same)
RECURSIVE RunLoop(_, _, _)
RunLoop(rl, gs, d) ==
    IF Len(rl) = 0 THEN Some(d)
    ELSE LET after == LoopBody(rl, gs, d)
         IN  IF after.random_list = rl THEN Absent
             ELSE RunLoop(after.random_list, gs, after.donut)

\* every result _generate_donut can give on a member list, over all shuffles
GenerateDonut(members, gs) == {RunLoop(rl, gs, {}) : rl \in Shuffles(members)}

\* lines 204-214: a donut as a list of lists of member objects
DonutToJson(d) ==
    LET groups == SetToSeq(d)
    IN  [i \in 1..Len(groups) |->
            LET ms == SetToSeq(groups[i])
            IN  [k \in 1..Len(ms) |->
                    [display_name |-> ms[k].display_name, mxid |-> ms[k].mxid]]]

\* lines 194-202: the donut of a stored list of lists
JsonToDonut(j) ==
    {{SimpleMember(j[i][k].display_name, j[i][k].mxid) : k \in 1..Len(j[i])} :
        i \in 1..Len(j)}

\* The stored state event content is Absent (MNotFound) or Some of a record with
\* the keys last_donut and current_donut; a key that was never set reads as the
\* empty list, which the `if last_donut:` tests treat like None.
NoJson == <<>>
EmptyState == [last_donut |-> NoJson, current_donut |-> NoJson]

\* lines 59-65
GetLastDonut(state) ==
    IF state # Absent /\ state[1].last_donut # NoJson
    THEN Some(JsonToDonut(state[1].last_donut))
    ELSE Absent

\* lines 67-73
GetCurrentDonut(state) ==
    IF state # Absent /\ state[1].current_donut # NoJson
    THEN Some(JsonToDonut(state[1].current_donut))
    ELSE Absent

\* `if x:` on an optional donut: neither None nor the empty set
Truthy(opt) == opt # Absent /\ opt[1] # {}

\* Faulty variant of SetCurrentDonutContent: last_donut is not updated
SetCurrentDonutContentNoShift(state, newDonut) ==
    LET base == IF state # Absent THEN state[1] ELSE EmptyState
    IN  [base EXCEPT !.current_donut = DonutToJson(newDonut)]

\* lines 76-82: the content set_current_donut sends
SetCurrentDonutContent(state, newDonut) ==
    LET base == IF state # Absent THEN state[1] ELSE EmptyState
        old  == GetCurrentDonut(state)
        withLast == IF Truthy(old)
                    THEN [base EXCEPT !.last_donut = DonutToJson(old[1])]
                    ELSE base
    IN  [withLast EXCEPT !.current_donut = DonutToJson(newDonut)]

\* ------------------------------------------------------------------ the bot: what a handler did

\* One call a handler made on the outside: evt.respond(text), the state write
\* client.send_state_event(content) of set_current_donut, or
\* client.create_room(invitees) of create_donut_room; ok tells whether it returned.
Respond(text) ==
    [op |-> "respond", text |-> text, content |-> EmptyState, invitees |-> <<>>, ok |-> TRUE]
SendStateEvent(content, ok) ==
    [op |-> "send_state_event", text |-> "", content |-> content, invitees |-> <<>>, ok |-> ok]
CreateRoom(invitees, ok) ==
    [op |-> "create_room", text |-> "", content |-> EmptyState, invitees |-> invitees, ok |-> ok]

\* the record of the last command handled: the command, the one before it (and
\* whether that one ended in an exception), the stored state and the proposal it
\* started from, its group size (when it has one), how the room state read of
\* `new` went, the donuts it generated, the calls it made, and whether it ended
\* in an exception it did not catch
Handled(cmd, r, candidates, calls, raised) ==
    [cmd          |-> cmd,
     room         |-> r,
     prev_cmd     |-> evt.cmd,
     prev_raised  |-> evt.raised,
     pre_state    |-> donut_state[r],
     pre_proposed |-> proposed_donuts[r],
     size         |-> Absent,
     io           |-> "ok",
     candidates   |-> candidates,
     calls        |-> calls,
     raised       |-> raised]

NoCommand ==
    [cmd          |-> "none",
     room         |-> CHOOSE r \in Rooms : TRUE,
     prev_cmd     |-> "none",
     prev_raised  |-> FALSE,
     pre_state    |-> Absent,
     pre_proposed |-> Absent,
     size         |-> Absent,
     io           |-> "ok",
     candidates   |-> <<>>,
     calls        |-> <<>>,
     raised       |-> FALSE]

\* the record of a command that takes a group size
WithSize(handled, gs, io) == [handled EXCEPT !.size = Some(gs), !.io = io]

BotIdle ==
    /\ joined = [r \in Rooms |-> [u \in UserIds \cup {BotId} |->
                    IF u = BotId THEN DefaultName ELSE NotJoined]]
    /\ donut_state = [r \in Rooms |-> Absent]
    /\ proposed_donuts = [r \in Rooms |-> Absent]
    /\ last_proposal = [r \in Rooms |-> Absent]
    /\ hung = FALSE
    /\ evt = NoCommand
    /\ nsteps = 0

\* ------------------------------------------------------------------ the bot: command handlers

Running == ~hung /\ nsteps < MaxSteps

\* _generate_donut never returns on this input
Hangs(members, gs) == Absent \in GenerateDonut(members, gs)

\* lines 138-140: last_donut is truthy and some pass of `for _ in range(10)`
\* finds the candidate overlapping it
NeedsRetry(last, cand) ==
    /\ Truthy(last)
    /\ \E i \in 1..RetryRange : AreDonutsOverlapping(last[1], cand)

\* lines 136-142: the donuts `new` generates, in order: the first candidate and,
\* when the loop finds it overlapping, one more, after which the loop breaks
NewRuns(members, gs, last) ==
    LET G == {c[1] : c \in GenerateDonut(members, gs)}
    IN  {<<c1>> : c1 \in {c \in G : ~NeedsRetry(last, c)}}
        \cup {<<c1, c2>> : c1 \in {c \in G : NeedsRetry(last, c)}, c2 \in G}

\* lines 123-129: list
List(r) ==
    /\ Running
    /\ evt' = Handled("list", r, <<>>,
                      <<Respond(IF GetMembers(r) # <<>> THEN "members" ELSE "no_members")>>,
                      FALSE)
    /\ nsteps' = nsteps + 1
    /\ UNCHANGED <<joined, donut_state, proposed_donuts, last_proposal, hung,
                   genVars, ovVars, concVars>>

\* lines 131-144: new
New(r, arg) ==
    /\ Running
    /\ ~Hangs(GetMembers(r), EffectiveGroupSize(arg))
    /\ \E run \in NewRuns(GetMembers(r), EffectiveGroupSize(arg),
                          GetLastDonut(donut_state[r])) :
          /\ proposed_donuts' = [proposed_donuts EXCEPT ![r] = Some(run[Len(run)])]
          /\ last_proposal' = [last_proposal EXCEPT ![r] = Some(run[Len(run)])]
          /\ evt' = WithSize(Handled("new", r, run, <<Respond("proposed")>>, FALSE),
                              EffectiveGroupSize(arg), "ok")
    /\ nsteps' = nsteps + 1
    /\ UNCHANGED <<joined, donut_state, hung, genVars, ovVars, concVars>>

\* lines 136-137: new, when reading the room state raises something other than
\* MNotFound: the exception leaves the handler after the first generation
NewReadFails(r, arg) ==
    /\ Running
    /\ ~Hangs(GetMembers(r), EffectiveGroupSize(arg))
    /\ \E c \in GenerateDonut(GetMembers(r), EffectiveGroupSize(arg)) :
          evt' = WithSize(Handled("new", r, <<c[1]>>, <<>>, TRUE),
                          EffectiveGroupSize(arg), "read_fails")
    /\ nsteps' = nsteps + 1
    /\ UNCHANGED <<joined, donut_state, proposed_donuts, last_proposal, hung,
                   genVars, ovVars, concVars>>

\* line 136: new, when _generate_donut never returns
NewHangs(r, arg) ==
    /\ Running
    /\ Hangs(GetMembers(r), EffectiveGroupSize(arg))
    /\ hung' = TRUE
    /\ evt' = WithSize(Handled("new", r, <<>>, <<>>, FALSE),
                       EffectiveGroupSize(arg), "ok")
    /\ nsteps' = nsteps + 1
    /\ UNCHANGED <<joined, donut_state, proposed_donuts, last_proposal,
                   genVars, ovVars, concVars>>

\* Faulty variant of SaveStage: the except branch does not return
SaveStageWithoutReturn(state, newDonut, io) ==
    LET content == SetCurrentDonutContent(state, newDonut)
    IN  [saved |-> TRUE,
         state |-> IF io = "ok" THEN Some(content) ELSE state,
         calls |-> IF io = "read_fails" THEN <<Respond("error_saving")>>
                   ELSE IF io = "write_fails"
                        THEN <<SendStateEvent(content, FALSE), Respond("error_saving")>>
                        ELSE <<SendStateEvent(content, TRUE), Respond("created")>>]

\* lines 151-157 with set_current_donut (75-85): the state write of confirm.
\* io is "ok", "read_fails" (get_state_event raises) or "write_fails"
\* (send_state_event raises); either failure is caught, reported, and ends confirm.
SaveStage(state, newDonut, io) ==
    LET content == SetCurrentDonutContent(state, newDonut)
    IN  [saved |-> io = "ok",
         state |-> IF io = "ok" THEN Some(content) ELSE state,
         calls |-> IF io = "read_fails" THEN <<Respond("error_saving")>>
                   ELSE IF io = "write_fails"
                        THEN <<SendStateEvent(content, FALSE), Respond("error_saving")>>
                        ELSE <<SendStateEvent(content, TRUE), Respond("created")>>]

\* line 91: invitees = [UserID(m.mxid) for m in group]
Invitees(group) ==
    LET ms == SetToSeq(group) IN [k \in 1..Len(ms) |-> ms[k].mxid]

\* Faulty variant of InviteCalls: the rooms are created one after the other and
\* the first failure ends the loop
InviteCallsOneByOne(newDonut, fails) ==
    LET groups == SetToSeq(newDonut)
        upTo   == IF \E i \in 1..Len(groups) : groups[i] \in fails
                  THEN CHOOSE i \in 1..Len(groups) :
                          /\ groups[i] \in fails
                          /\ \A k \in 1..(i - 1) : groups[k] \notin fails
                  ELSE Len(groups)
    IN  [i \in 1..upTo |-> CreateRoom(Invitees(groups[i]), groups[i] \notin fails)]

\* lines 87-102: asyncio.gather starts create_donut_room for every group, so
\* create_room is called once per group whichever of them fail
InviteCalls(newDonut, fails) ==
    LET groups == SetToSeq(newDonut)
    IN  [i \in 1..Len(groups) |-> CreateRoom(Invitees(groups[i]), groups[i] \notin fails)]

\* Faulty variant of InviteStage: gather's exception is not reported
InviteStageFailureSwallowed(newDonut, fails) ==
    [invited |-> TRUE,
     calls   |-> InviteCalls(newDonut, fails) \o <<Respond("invited")>>]

\* lines 159-166: the invitations and the response after them
InviteStage(newDonut, fails) ==
    [invited |-> fails \cap newDonut = {},
     calls   |-> InviteCalls(newDonut, fails)
                 \o <<Respond(IF fails \cap newDonut = {} THEN "invited"
                              ELSE "error_inviting")>>]

\* Faulty variant of NoProposal: confirm says nothing
NoProposalSilent == <<>>

\* lines 168-169: the answer of confirm when nothing is proposed
NoProposal == <<Respond("no_proposed")>>

\* lines 149-169: what confirm does from the stored state and the proposal
ConfirmOutcome(state, proposed, io, fails) ==
    IF ~Truthy(proposed)
    THEN [state |-> state, proposed |-> proposed, calls |-> NoProposal]
    ELSE LET save   == SaveStage(state, proposed[1], io)
             invite == InviteStage(proposed[1], fails)
         IN  IF ~save.saved
             THEN [state |-> save.state, proposed |-> proposed, calls |-> save.calls]
             ELSE [state    |-> save.state,
                   proposed |-> IF invite.invited THEN Absent ELSE proposed,
                   calls    |-> save.calls \o invite.calls]

IoOutcomes == {"ok", "read_fails", "write_fails"}

\* the sets of subgroups whose create_donut_room may raise
FailSets(proposed) == IF Truthy(proposed) THEN SUBSET proposed[1] ELSE {{}}

\* lines 146-169: confirm
Confirm(r, io, fails) ==
    /\ Running
    /\ LET out == ConfirmOutcome(donut_state[r], proposed_donuts[r], io, fails)
       IN  /\ donut_state' = [donut_state EXCEPT ![r] = out.state]
           /\ proposed_donuts' = [proposed_donuts EXCEPT ![r] = out.proposed]
           /\ evt' = Handled("confirm", r, <<>>, out.calls, FALSE)
    /\ nsteps' = nsteps + 1
    /\ UNCHANGED <<joined, last_proposal, hung, genVars, ovVars, concVars>>

\* lines 171-177: current
Current(r) ==
    /\ Running
    /\ evt' = Handled("current", r, <<>>,
                      <<Respond(IF Truthy(GetCurrentDonut(donut_state[r]))
                                THEN "current" ELSE "no_current")>>,
                      FALSE)
    /\ nsteps' = nsteps + 1
    /\ UNCHANGED <<joined, donut_state, proposed_donuts, last_proposal, hung,
                   genVars, ovVars, concVars>>

\* lines 179-185: previous
Previous(r) ==
    /\ Running
    /\ evt' = Handled("previous", r, <<>>,
                      <<Respond(IF Truthy(GetLastDonut(donut_state[r]))
                                THEN "previous" ELSE "no_previous")>>,
                      FALSE)
    /\ nsteps' = nsteps + 1
    /\ UNCHANGED <<joined, donut_state, proposed_donuts, last_proposal, hung,
                   genVars, ovVars, concVars>>

\* Faulty variant of Sample: the sample is kept as the proposal
SampleKeepsDonut(r, arg) ==
    /\ Running
    /\ ~Hangs(GetMembers(r), EffectiveGroupSize(arg))
    /\ \E c \in GenerateDonut(GetMembers(r), EffectiveGroupSize(arg)) :
          /\ evt' = WithSize(Handled("sample", r, <<c[1]>>, <<Respond("sample")>>, FALSE),
                              EffectiveGroupSize(arg), "ok")
          /\ proposed_donuts' = [proposed_donuts EXCEPT ![r] = c]
    /\ nsteps' = nsteps + 1
    /\ UNCHANGED <<joined, donut_state, last_proposal, hung,
                   genVars, ovVars, concVars>>

\* lines 187-192: sample
Sample(r, arg) ==
    /\ Running
    /\ ~Hangs(GetMembers(r), EffectiveGroupSize(arg))
    /\ \E c \in GenerateDonut(GetMembers(r), EffectiveGroupSize(arg)) :
          evt' = WithSize(Handled("sample", r, <<c[1]>>, <<Respond("sample")>>, FALSE),
                          EffectiveGroupSize(arg), "ok")
    /\ nsteps' = nsteps + 1
    /\ UNCHANGED <<joined, donut_state, proposed_donuts, last_proposal, hung,
                   genVars, ovVars, concVars>>

\* line 191: sample, when _generate_donut never returns
SampleHangs(r, arg) ==
    /\ Running
    /\ Hangs(GetMembers(r), EffectiveGroupSize(arg))
    /\ hung' = TRUE
    /\ evt' = WithSize(Handled("sample", r, <<>>, <<>>, FALSE),
                       EffectiveGroupSize(arg), "ok")
    /\ nsteps' = nsteps + 1
    /\ UNCHANGED <<joined, donut_state, proposed_donuts, last_proposal,
                   genVars, ovVars, concVars>>

\* Faulty variant of Restart: the proposals survive the restart
RestartKeepsProposals ==
    /\ nsteps < MaxSteps
    /\ hung' = FALSE
    /\ evt' = Handled("restart", CHOOSE r \in Rooms : TRUE, <<>>, <<>>, FALSE)
    /\ nsteps' = nsteps + 1
    /\ UNCHANGED <<joined, donut_state, proposed_donuts, last_proposal, genVars, ovVars, concVars>>

\* lines 40-41: the bot process is restarted: proposed_donuts is a dict in
\* memory and starts empty again; the room state events are on the server
Restart ==
    /\ nsteps < MaxSteps
    /\ proposed_donuts' = [r \in Rooms |-> Absent]
    /\ hung' = FALSE
    /\ evt' = Handled("restart", CHOOSE r \in Rooms : TRUE, <<>>, <<>>, FALSE)
    /\ nsteps' = nsteps + 1
    /\ UNCHANGED <<joined, donut_state, last_proposal, genVars, ovVars, concVars>>

\* ------------------------------------------------------------------ the room's membership

\* line 47: get_joined_members reads the room as it is now; users join, leave
\* and change their display name between commands
Join(r, u, name) ==
    /\ nsteps < MaxSteps
    /\ joined[r][u] = NotJoined
    /\ joined' = [joined EXCEPT ![r][u] = name]
    /\ nsteps' = nsteps + 1
    /\ UNCHANGED <<donut_state, proposed_donuts, last_proposal, hung, evt,
                   genVars, ovVars, concVars>>

Leave(r, u) ==
    /\ nsteps < MaxSteps
    /\ joined[r][u] # NotJoined
    /\ joined' = [joined EXCEPT ![r][u] = NotJoined]
    /\ nsteps' = nsteps + 1
    /\ UNCHANGED <<donut_state, proposed_donuts, last_proposal, hung, evt,
                   genVars, ovVars, concVars>>

Rename(r, u, name) ==
    /\ nsteps < MaxSteps
    /\ joined[r][u] \notin {NotJoined, name}
    /\ joined' = [joined EXCEPT ![r][u] = name]
    /\ nsteps' = nsteps + 1
    /\ UNCHANGED <<donut_state, proposed_donuts, last_proposal, hung, evt,
                   genVars, ovVars, concVars>>

\* ------------------------------------------------------------------ specifications

\* ------------------------------------------------------------------ confirm as concurrent tasks

\* Each confirm command runs as its own asyncio task; between two awaits a task
\* runs alone, and at an await any other task may run. A task is followed from
\* await to await.
TaskIds == 1..MaxTasks

\* pc: "idle" (not received yet), "read_state" (at line 76), "read_current"
\* (at line 79), "write" (at line 83), "invite" (at lines 158-160), "pop" (at
\* line 166), "done" (returned) or "raised" (left by an exception);
\* proposed, state and old are the locals proposed_donut (line 149),
\* donut_state (line 76) and old_donut (line 79); ver is the number of the new
\* that made the proposal the task read, wrote tells whether its
\* send_state_event went through, popped is the number of the new whose
\* proposal its pop removed, answer is its last response
IdleTask ==
    [pc |-> "idle", proposed |-> Absent, ver |-> 0, state |-> Absent, old |-> Absent,
     wrote |-> FALSE, popped |-> Absent, answer |-> "none"]

ConcIdle == tasks = [t \in TaskIds |-> IdleTask]

\* lines 76-82 with the two reads given apart: the content from the state read
\* at line 76 and the current donut read at line 79
SetCurrentDonutContentOf(state, old, newDonut) ==
    LET base == IF state # Absent THEN state[1] ELSE EmptyState
        withLast == IF Truthy(old)
                    THEN [base EXCEPT !.last_donut = DonutToJson(old[1])]
                    ELSE base
    IN  [withLast EXCEPT !.current_donut = DonutToJson(newDonut)]

\* lines 148-150, 168-169: the task starts, reads the proposal and either goes
\* on to set_current_donut or answers that nothing is proposed
ConfStart(t, r) ==
    /\ tasks[t].pc = "idle"
    /\ tasks' = [tasks EXCEPT ![t] =
          IF Truthy(proposed_donuts[r])
          THEN [@ EXCEPT !.pc = "read_state", !.proposed = proposed_donuts[r],
                         !.ver = nsteps]
          ELSE [@ EXCEPT !.pc = "done", !.answer = "no_proposed"]]
    /\ UNCHANGED <<botVars, genVars, ovVars>>

\* line 76: get_donut_state returns
ConfReadState(t, r) ==
    /\ tasks[t].pc = "read_state"
    /\ tasks' = [tasks EXCEPT ![t] = [@ EXCEPT !.pc = "read_current",
                                               !.state = donut_state[r]]]
    /\ UNCHANGED <<botVars, genVars, ovVars>>

\* line 79: get_current_donut returns
ConfReadCurrent(t, r) ==
    /\ tasks[t].pc = "read_current"
    /\ tasks' = [tasks EXCEPT ![t] = [@ EXCEPT !.pc = "write",
                                               !.old = GetCurrentDonut(donut_state[r])]]
    /\ UNCHANGED <<botVars, genVars, ovVars>>

\* lines 80-85, 158: send_state_event stores the content and confirm responds
ConfWrite(t, r) ==
    /\ tasks[t].pc = "write"
    /\ donut_state' = [donut_state EXCEPT ![r] =
          Some(SetCurrentDonutContentOf(tasks[t].state, tasks[t].old,
                                        tasks[t].proposed[1]))]
    /\ tasks' = [tasks EXCEPT ![t] = [@ EXCEPT !.pc = "invite", !.wrote = TRUE,
                                               !.answer = "created"]]
    /\ UNCHANGED <<joined, proposed_donuts, last_proposal, hung, evt, nsteps,
                   genVars, ovVars>>

\* lines 83-85, 154-157: send_state_event raises
ConfWriteFails(t, r) ==
    /\ tasks[t].pc = "write"
    /\ tasks' = [tasks EXCEPT ![t] = [@ EXCEPT !.pc = "done",
                                               !.answer = "error_saving"]]
    /\ UNCHANGED <<botVars, genVars, ovVars>>

\* lines 159-160, 166: the rooms are created and confirm responds
ConfInvite(t, r) ==
    /\ tasks[t].pc = "invite"
    /\ tasks' = [tasks EXCEPT ![t] = [@ EXCEPT !.pc = "pop", !.answer = "invited"]]
    /\ UNCHANGED <<botVars, genVars, ovVars>>

\* lines 159-165: a create_room raises and confirm returns
ConfInviteFails(t, r) ==
    /\ tasks[t].pc = "invite"
    /\ tasks' = [tasks EXCEPT ![t] = [@ EXCEPT !.pc = "done",
                                               !.answer = "error_inviting"]]
    /\ UNCHANGED <<botVars, genVars, ovVars>>

\* line 167: proposed_donuts.pop(room_id) removes whatever is under the key,
\* and raises KeyError when the key is not there
ConfPop(t, r) ==
    /\ tasks[t].pc = "pop"
    /\ IF proposed_donuts[r] # Absent
       THEN /\ proposed_donuts' = [proposed_donuts EXCEPT ![r] = Absent]
            /\ tasks' = [tasks EXCEPT ![t] = [@ EXCEPT !.pc = "done",
                                                       !.popped = Some(nsteps)]]
       ELSE /\ proposed_donuts' = proposed_donuts
            /\ tasks' = [tasks EXCEPT ![t] = [@ EXCEPT !.pc = "raised"]]
    /\ UNCHANGED <<joined, donut_state, last_proposal, hung, evt, nsteps,
                   genVars, ovVars>>

InitGen ==
    /\ member_list \in GenMemberLists
    /\ group_size \in GenSizes
    /\ random_list = <<>>
    /\ donut = {}
    /\ gen_pc = "start"
    /\ OvIdle
    /\ BotIdle
    /\ ConcIdle

NextGen == GenShuffle \/ GenIterate \/ GenReturn

SpecGen == InitGen /\ [][NextGen]_vars

InitOverlap ==
    /\ d1 \in OvDonuts
    /\ d2 \in OvDonuts
    /\ ov_ab = FALSE
    /\ ov_ba = FALSE
    /\ ov_calls = {}
    /\ GenIdle
    /\ BotIdle
    /\ ConcIdle

NextOverlap == OverlapAB \/ OverlapBA

SpecOverlap == InitOverlap /\ [][NextOverlap]_vars

\* The bot starts with no proposal in memory, in a room that has no donut state
\* event yet and any of the users joined under their default name.
Init ==
    /\ joined \in [Rooms -> {j \in [UserIds \cup {BotId} -> {DefaultName, NotJoined}] :
                                j[BotId] = DefaultName}]
    /\ donut_state = [r \in Rooms |-> Absent]
    /\ proposed_donuts = [r \in Rooms |-> Absent]
    /\ last_proposal = [r \in Rooms |-> Absent]
    /\ hung = FALSE
    /\ evt = NoCommand
    /\ nsteps = 0
    /\ GenIdle
    /\ OvIdle
    /\ ConcIdle

Next ==
    \E r \in Rooms :
        \/ List(r)
        \/ \E arg \in GroupSizeArgs : New(r, arg)
        \/ \E arg \in GroupSizeArgs : NewReadFails(r, arg)
        \/ \E arg \in GroupSizeArgs : NewHangs(r, arg)
        \/ \E io \in IoOutcomes : \E fails \in FailSets(proposed_donuts[r]) :
              Confirm(r, io, fails)
        \/ Current(r)
        \/ Previous(r)
        \/ \E arg \in GroupSizeArgs : Sample(r, arg)
        \/ \E arg \in GroupSizeArgs : SampleHangs(r, arg)
        \/ \E u \in UserIds : \E name \in Names : Join(r, u, name)
        \/ \E u \in UserIds : Leave(r, u)
        \/ \E u \in UserIds : \E name \in Names : Rename(r, u, name)
        \/ Restart

Spec == Init /\ [][Next]_vars

\* The rounds a room can have stored: the non-empty donuts _generate_donut makes
\* of its joined users with a group size of at least one (confirm stores no
\* empty donut, line 150)
StoredDonuts(r) ==
    {c[1] : c \in UNION {GenerateDonut(GetMembers(r), gs) : gs \in 1..DefaultGroupSize}
                       \ {Absent}}
        \ {{}}

\* lines 75-85: the contents the state event of a room can have: none, a
\* current_donut only (one confirm), or a last_donut and a current_donut
StoredStates(r) ==
    {Absent}
    \cup {Some([last_donut |-> l, current_donut |-> DonutToJson(c)]) :
              l \in {NoJson} \cup {DonutToJson(d) : d \in StoredDonuts(r)},
              c \in StoredDonuts(r)}

\* The bot has just started in a room that may have rounds stored from earlier
\* runs; StoredSteps more commands are handled
InitStored ==
    /\ joined \in [Rooms -> {j \in [UserIds \cup {BotId} -> {DefaultName, NotJoined}] :
                                j[BotId] = DefaultName}]
    /\ donut_state \in [Rooms -> UNION {StoredStates(r) : r \in Rooms}]
    /\ \A r \in Rooms : donut_state[r] \in StoredStates(r)
    /\ proposed_donuts = [r \in Rooms |-> Absent]
    /\ last_proposal = [r \in Rooms |-> Absent]
    /\ hung = FALSE
    /\ evt = NoCommand
    /\ nsteps = MaxSteps - StoredSteps
    /\ GenIdle
    /\ OvIdle
    /\ ConcIdle

SpecStored == InitStored /\ [][Next]_vars

\* A room with every user joined and nothing stored, where `new` commands and
\* concurrent confirm commands arrive; the number of the commands handled,
\* nsteps, numbers the proposals
InitConc ==
    /\ joined = [r \in Rooms |-> [u \in UserIds \cup {BotId} |-> DefaultName]]
    /\ donut_state = [r \in Rooms |-> Absent]
    /\ proposed_donuts = [r \in Rooms |-> Absent]
    /\ last_proposal = [r \in Rooms |-> Absent]
    /\ hung = FALSE
    /\ evt = NoCommand
    /\ nsteps = 0
    /\ ConcIdle
    /\ GenIdle
    /\ OvIdle

NextConc ==
    \E r \in Rooms :
        \/ \E arg \in GroupSizeArgs : New(r, arg)
        \/ \E t \in TaskIds :
              \/ ConfStart(t, r)
              \/ ConfReadState(t, r)
              \/ ConfReadCurrent(t, r)
              \/ ConfWrite(t, r)
              \/ ConfWriteFails(t, r)
              \/ ConfInvite(t, r)
              \/ ConfInviteFails(t, r)
              \/ ConfPop(t, r)

SpecConc == InitConc /\ [][NextConc]_vars


\* ------------------------------------------------------------------ claims on the pure functions

GroupsOfSize(d, n) == Cardinality({g \in d : Cardinality(g) = n})

\* C1: for every non-empty member list (distinct ids) and group_size >= 1 the
\* donut returned by _generate_donut is a partition of the input: the subgroups
\* together are exactly the input members and every member is in exactly one.
C1_TruePartition ==
    (gen_pc = "done" /\ group_size >= 1 /\ Len(member_list) > 0) =>
        /\ UNION donut = Range(member_list)
        /\ \A m \in Range(member_list) : Cardinality({g \in donut : m \in g}) = 1

\* the spec's example: five members, group_size 2, returned with the remainder folded
C1_Witness ==
    /\ gen_pc = "done"
    /\ Len(member_list) = 5
    /\ group_size = 2
    /\ GroupsOfSize(donut, 2) = 1
    /\ GroupsOfSize(donut, 3) = 1

\* C2: with c members, g = group_size >= 1, q = c div g and r = c mod g, the
\* sizes of the returned subgroups do not depend on the shuffle: none is empty;
\* r = 0 gives q subgroups of size g; 0 < r <= floor(g/2) with q >= 1 gives q-1
\* of size g and one of size g+r; otherwise q of size g and one of size r.
\* c = 0 gives the empty donut, 1 <= c <= g one subgroup holding everyone.
C2_SubgroupSizes ==
    (gen_pc = "done" /\ group_size >= 1) =>
        LET c == Len(member_list)
            g == group_size
            q == c \div g
            r == c % g
        IN  /\ {} \notin donut
            /\ (r = 0) =>
                   /\ Cardinality(donut) = q
                   /\ GroupsOfSize(donut, g) = q
            /\ (0 < r /\ r <= (g \div 2) /\ q >= 1) =>
                   /\ Cardinality(donut) = q
                   /\ GroupsOfSize(donut, g) = q - 1
                   /\ GroupsOfSize(donut, g + r) = 1
            /\ (0 < r /\ ~(r <= (g \div 2) /\ q >= 1)) =>
                   /\ Cardinality(donut) = q + 1
                   /\ GroupsOfSize(donut, g) = q
                   /\ GroupsOfSize(donut, r) = 1
            /\ (c = 0) => donut = {}
            /\ (1 <= c /\ c <= g) => donut = {Range(member_list)}

\* five members in threes: one subgroup of 3 and a trailing subgroup of 2
C2_Witness ==
    /\ gen_pc = "done"
    /\ Len(member_list) = 5
    /\ group_size = 3
    /\ GroupsOfSize(donut, 3) = 1
    /\ GroupsOfSize(donut, 2) = 1

\* C9: _are_donuts_overlapping(a, b) holds exactly when a subgroup of a and a
\* subgroup of b have the same set of participant ids, whatever the display names.
C9_OverlapByIds ==
    ("ab" \in ov_calls) =>
        (ov_ab <=> \E g \in d1 : \E h \in d2 : Mxids(g) = Mxids(h))

\* C10: _are_donuts_overlapping(a, b) = _are_donuts_overlapping(b, a).
C10_OverlapSymmetric ==
    (ov_calls = {"ab", "ba"}) => (ov_ab = ov_ba)

\* both calls made on two different donuts that share one subgroup and differ in another
C10_Witness ==
    /\ ov_calls = {"ab", "ba"}
    /\ ov_ab = TRUE
    /\ ov_ba = TRUE
    /\ d1 # d2
    /\ d1 \ d2 # {}
    /\ d2 \ d1 # {}

\* ------------------------------------------------------------------ claims on the workflow

\* the calls of one kind the last command made, in order
CallsOf(op) == SelectSeq(evt.calls, LAMBDA c : c.op = op)
Responded(text) == \E i \in 1..Len(evt.calls) : evt.calls[i] = Respond(text)
\* the state write of the last command was made and returned
WriteSucceeded ==
    \E i \in 1..Len(evt.calls) : evt.calls[i].op = "send_state_event" /\ evt.calls[i].ok
WriteFailed ==
    \E i \in 1..Len(evt.calls) : evt.calls[i].op = "send_state_event" /\ ~evt.calls[i].ok
InviteFailed ==
    \E i \in 1..Len(evt.calls) : evt.calls[i].op = "create_room" /\ ~evt.calls[i].ok

\* C3: a confirm that directly follows a new-round request and whose state
\* write succeeds leaves the donut that request proposed as the stored current
\* round, and the round that was current before the confirm as the stored
\* previous round (absent when there was none).
C3_ConfirmPromotesProposal ==
    (/\ evt.cmd = "confirm"
     /\ evt.prev_cmd = "new"
     /\ ~evt.prev_raised
     /\ WriteSucceeded) =>
        /\ GetCurrentDonut(donut_state[evt.room]) = last_proposal[evt.room]
        /\ GetLastDonut(donut_state[evt.room]) = GetCurrentDonut(evt.pre_state)

\* a confirm after a new, over a stored current round that differs from the proposal
C3_Witness ==
    /\ evt.cmd = "confirm"
    /\ evt.prev_cmd = "new"
    /\ ~evt.prev_raised
    /\ WriteSucceeded
    /\ GetCurrentDonut(evt.pre_state) # Absent
    /\ GetCurrentDonut(evt.pre_state) # last_proposal[evt.room]
    /\ GetLastDonut(donut_state[evt.room]) # GetLastDonut(evt.pre_state)

\* C4: a confirm on a room with no proposed round answers that nothing is
\* proposed and does nothing else: no state write, no room created, and the
\* stored rounds and the (absent) proposal are as before.
C4_ConfirmWithoutProposal ==
    (evt.cmd = "confirm" /\ evt.pre_proposed = Absent) =>
        /\ evt.calls = <<Respond("no_proposed")>>
        /\ donut_state[evt.room] = evt.pre_state
        /\ proposed_donuts[evt.room] = Absent

\* a confirm with nothing proposed in a room that has stored rounds
C4_Witness ==
    /\ evt.cmd = "confirm"
    /\ evt.pre_proposed = Absent
    /\ GetCurrentDonut(evt.pre_state) # Absent
    /\ Responded("no_proposed")

\* C5: every confirm that writes the proposed round as current also clears the
\* proposal, whether or not the invitations succeed.
C5_PromotionClearsProposal ==
    (evt.cmd = "confirm" /\ WriteSucceeded) => proposed_donuts[evt.room] = Absent

\* C6: when the state write of confirm fails, confirm reports it and stops: the
\* stored rounds are as before, the proposal is still pending and no room is
\* created for any subgroup.
C6_SaveFailureAborts ==
    (evt.cmd = "confirm" /\ Truthy(evt.pre_proposed) /\ ~WriteSucceeded) =>
        /\ Responded("error_saving")
        /\ donut_state[evt.room] = evt.pre_state
        /\ proposed_donuts[evt.room] = evt.pre_proposed
        /\ CallsOf("create_room") = <<>>

\* a confirm whose send_state_event raised, over stored rounds
C6_Witness ==
    /\ evt.cmd = "confirm"
    /\ Truthy(evt.pre_proposed)
    /\ WriteFailed
    /\ GetCurrentDonut(evt.pre_state) # Absent
    /\ Cardinality(evt.pre_proposed[1]) > 1

\* C7: when confirm has written the proposed round X as current and creating
\* the room of some subgroup fails, the failure is reported and nothing is
\* rolled back: current is X and previous is the round that was current before.
C7_InviteFailureKeepsPromotion ==
    (evt.cmd = "confirm" /\ WriteSucceeded /\ InviteFailed) =>
        /\ Responded("error_inviting")
        /\ ~Responded("invited")
        /\ GetCurrentDonut(donut_state[evt.room]) = evt.pre_proposed
        /\ GetLastDonut(donut_state[evt.room]) = GetCurrentDonut(evt.pre_state)

\* a confirm over a stored current round, with one of several rooms failing
C7_Witness ==
    /\ evt.cmd = "confirm"
    /\ WriteSucceeded
    /\ InviteFailed
    /\ \E i \in 1..Len(evt.calls) : evt.calls[i].op = "create_room" /\ evt.calls[i].ok
    /\ GetCurrentDonut(evt.pre_state) # Absent
    /\ GetCurrentDonut(evt.pre_state) # evt.pre_proposed

\* C8: a confirm whose state write succeeds calls create_room exactly once for
\* every subgroup of the promoted donut, with exactly that subgroup's mxids as
\* invitees, and for nothing else; every create_room call comes after the
\* successful state write, and a command without one creates no room.
C8_OneInvitePerSubgroup ==
    LET creates == CallsOf("create_room")
    IN  IF evt.cmd = "confirm" /\ WriteSucceeded
        THEN LET X == evt.pre_proposed[1]
             IN  /\ Len(creates) = Cardinality(X)
                 /\ \A g \in X :
                       Cardinality({i \in 1..Len(creates) :
                                       /\ Range(creates[i].invitees) = Mxids(g)
                                       /\ Len(creates[i].invitees) = Cardinality(g)}) = 1
                 /\ \A i \in 1..Len(creates) :
                       \E g \in X : Range(creates[i].invitees) = Mxids(g)
                 /\ \A i \in 1..Len(evt.calls) :
                       evt.calls[i].op = "create_room" =>
                           \E k \in 1..(i - 1) :
                               evt.calls[k].op = "send_state_event" /\ evt.calls[k].ok
        ELSE creates = <<>>

\* a promoted donut of several subgroups, one of whose rooms could not be created
C8_Witness ==
    /\ evt.cmd = "confirm"
    /\ WriteSucceeded
    /\ Cardinality(evt.pre_proposed[1]) > 1
    /\ InviteFailed
    /\ Len(CallsOf("create_room")) = Cardinality(evt.pre_proposed[1])

\* ------------------------------------------------------------------ claims on the workflow, continued

\* a step in which a command was handled: the membership is as before and the
\* step counter moved
CommandStep == nsteps' # nsteps /\ joined' = joined

\* C13: the stored rounds of a room change only in a confirm, and its proposal
\* only in a new or a confirm: new leaves the stored state as it was, and
\* sample, list, current and previous leave stored state and proposal as they were.
C13_OnlyNewAndConfirmWrite ==
    [][/\ (donut_state' # donut_state) => (CommandStep /\ evt'.cmd = "confirm")
       /\ (proposed_donuts' # proposed_donuts) =>
              (CommandStep /\ evt'.cmd \in {"new", "confirm", "restart"})
       /\ (CommandStep /\ evt'.cmd \in {"sample", "list", "current", "previous"}) =>
              (donut_state' = donut_state /\ proposed_donuts' = proposed_donuts)
       /\ (CommandStep /\ evt'.cmd = "new") => donut_state' = donut_state]_vars

\* a sample generated a non-empty donut in a room with stored rounds and a
\* different proposal pending, and all of these are as they were
C13_Witness ==
    /\ evt.cmd = "sample"
    /\ evt.candidates # <<>>
    /\ evt.candidates[1] # {}
    /\ Truthy(evt.pre_proposed)
    /\ evt.pre_proposed # Some(evt.candidates[1])
    /\ proposed_donuts[evt.room] = evt.pre_proposed
    /\ donut_state[evt.room] = evt.pre_state
    /\ evt.pre_state # Absent

\* C15: the round a new-round request avoids is the most recently confirmed
\* one, stored as current_donut when new runs: when the first candidate shares
\* a subgroup with it, new generates again.
C15_AvoidsCurrentRound ==
    (/\ evt.cmd = "new"
     /\ ~evt.raised
     /\ evt.candidates # <<>>
     /\ Truthy(GetCurrentDonut(evt.pre_state))
     /\ AreDonutsOverlapping(GetCurrentDonut(evt.pre_state)[1], evt.candidates[1])) =>
        Len(evt.candidates) > 1

\* C17: when creating the room fails for k subgroups of the promoted round, the
\* caller gets a failure report for each of the k, and the rooms of the other
\* subgroups are created.
C17_FailureReportedPerSubgroup ==
    (evt.cmd = "confirm" /\ WriteSucceeded) =>
        /\ Len(SelectSeq(evt.calls, LAMBDA c : c = Respond("error_inviting")))
               = Len(SelectSeq(CallsOf("create_room"), LAMBDA c : ~c.ok))
        /\ Len(CallsOf("create_room")) = Cardinality(evt.pre_proposed[1])

\* C18: a confirm issued right after a completed new-round request promotes the
\* proposal, whatever the member list was, the empty one included.
C18_ConfirmAfterNewPromotes ==
    (evt.cmd = "confirm" /\ evt.prev_cmd = "new" /\ ~evt.prev_raised) =>
        ~Responded("no_proposed")

\* the joined users of room r other than the bot, as members
OtherJoined(r) ==
    {SimpleMember(joined[r][u], u) : u \in {v \in UserIds : joined[r][v] # NotJoined}}
BotIn(d) == \E g \in d : BotId \in Mxids(g)

\* C20: the bot is never a participant: no subgroup of a proposed round, of a
\* stored round or of a create_room call holds the bot's mxid, and a round that
\* new proposes is made of exactly the room's other joined members.
C20_BotNeverParticipant ==
    [][/\ \A r \in Rooms :
             /\ proposed_donuts'[r] # Absent => ~BotIn(proposed_donuts'[r][1])
             /\ GetCurrentDonut(donut_state'[r]) # Absent =>
                    ~BotIn(GetCurrentDonut(donut_state'[r])[1])
             /\ GetLastDonut(donut_state'[r]) # Absent =>
                    ~BotIn(GetLastDonut(donut_state'[r])[1])
             /\ (CommandStep /\ evt'.cmd = "new" /\ ~evt'.raised /\ ~hung') =>
                    UNION proposed_donuts'[r][1] = OtherJoined(r)
       /\ \A i \in 1..Len(evt'.calls) :
             evt'.calls[i].op = "create_room" => BotId \notin Range(evt'.calls[i].invitees)
       /\ \A i \in 1..Len(evt'.candidates) : ~BotIn(evt'.candidates[i])]_vars

\* a round of both users was proposed, promoted, and their rooms created
C20_Witness ==
    /\ evt.cmd = "confirm"
    /\ WriteSucceeded
    /\ Len(CallsOf("create_room")) > 1
    /\ Cardinality(UNION GetCurrentDonut(donut_state[evt.room])[1]) = MaxUsers

\* ------------------------------------------------------------------ claims on _generate_donut, continued

\* C19: for every member list and every integer group_size, zero and negative
\* ones included, _generate_donut terminates and returns a partition of the
\* members with no empty subgroup: no pass of the while loop leaves the list
\* and the donut as they were, and the returned donut covers the members and
\* holds no empty subgroup.
C19_TerminatesForEveryGroupSize ==
    /\ (gen_pc = "loop" /\ Len(random_list) > 0) =>
           LoopBody(random_list, group_size, donut)
               # [random_list |-> random_list, donut |-> donut]
    /\ (gen_pc = "done") =>
           /\ UNION donut = Range(member_list)
           /\ {} \notin donut

\* ------------------------------------------------------------------ claims on restarts

\* C14: the proposed round lives in memory only: a restart of the process
\* leaves no room with a proposal and leaves the stored state of every room as
\* it was, and a confirm that is the first command after a restart reports
\* that there is no proposed donut and stores nothing.
C14_RestartDropsProposalsOnly ==
    [][/\ (nsteps' # nsteps /\ evt'.cmd = "restart") =>
              /\ \A r \in Rooms : proposed_donuts'[r] = Absent
              /\ donut_state' = donut_state
       /\ (nsteps' # nsteps /\ evt'.cmd = "confirm" /\ evt'.prev_cmd = "restart") =>
              /\ evt'.calls = <<Respond("no_proposed")>>
              /\ donut_state' = donut_state]_vars

\* a round was proposed, the process restarted, and the confirm that followed
\* found no proposal
C14_Witness ==
    /\ evt.cmd = "confirm"
    /\ evt.prev_cmd = "restart"
    /\ Truthy(last_proposal[evt.room])
    /\ Responded("no_proposed")
    /\ proposed_donuts[evt.room] = Absent

\* ------------------------------------------------------------------ claims on the retry of new

\* a new that ran to its end: it read the room state and generated something
CompletedNew == evt.cmd = "new" /\ evt.io = "ok" /\ ~hung /\ evt.candidates # <<>>

\* C11: with a previous round stored, new checks every candidate it generates
\* against it and generates again while the candidate overlaps, up to the retry
\* bound; it proposes the last candidate. So new generated again only after an
\* overlapping candidate, it proposes an overlapping round only when the bound
\* is used up, and with no previous round or a first candidate that does not
\* overlap it proposes the first candidate with no second generation.
C11_RetriesUpToBound ==
    CompletedNew =>
        LET last  == GetLastDonut(evt.pre_state)
            cands == evt.candidates
            Overlaps(i) == Truthy(last) /\ AreDonutsOverlapping(last[1], cands[i])
        IN  /\ proposed_donuts[evt.room] = Some(cands[Len(cands)])
            /\ Len(cands) <= RetryRange + 1
            /\ \A i \in 1..(Len(cands) - 1) : Overlaps(i)
            /\ Overlaps(Len(cands)) => Len(cands) >= RetryRange
            /\ ~Overlaps(1) => Len(cands) = 1

\* the group sizes of at least one that new can be given
SizesFromOne == {gs \in {EffectiveGroupSize(arg) : arg \in GroupSizeArgs} : gs >= 1}

\* C12: a new with group_size >= 1 terminates and proposes a round: the
\* generator returns on every shuffle, new generates at most RetryRange + 1
\* times, raises nothing once the room state is read, and proposes its last
\* candidate. With exactly group_size members and a previous round that is the
\* single subgroup of them all, new generates twice and proposes that subgroup.
C12_NewTerminatesAndProposes ==
    /\ \A r \in Rooms : \A gs \in SizesFromOne :
           Absent \notin GenerateDonut(GetMembers(r), gs)
    /\ (evt.cmd = "new" /\ evt.size[1] >= 1) =>
           /\ ~hung
           /\ Len(evt.candidates) \in 1..(RetryRange + 1)
           /\ evt.io = "ok" =>
                  /\ ~evt.raised
                  /\ Responded("proposed")
                  /\ proposed_donuts[evt.room]
                         = Some(evt.candidates[Len(evt.candidates)])
           /\ (/\ evt.io = "ok"
               /\ Cardinality(UNION evt.candidates[1]) = evt.size[1]
               /\ GetLastDonut(evt.pre_state) = Some({UNION evt.candidates[1]})) =>
                  /\ Len(evt.candidates) = 2
                  /\ proposed_donuts[evt.room] = Some({UNION evt.candidates[1]})

\* two users, group size two, and the previous round was the pair of them: new
\* generated the pair twice and proposed it
C12_Witness ==
    /\ CompletedNew
    /\ evt.size = Some(DefaultGroupSize)
    /\ Cardinality(UNION evt.candidates[1]) = DefaultGroupSize
    /\ GetLastDonut(evt.pre_state) = Some({UNION evt.candidates[1]})
    /\ evt.candidates = <<{UNION evt.candidates[1]}, {UNION evt.candidates[1]}>>
    /\ proposed_donuts[evt.room] = Some({UNION evt.candidates[1]})
    /\ Responded("proposed")

\* ------------------------------------------------------------------ claims on concurrent confirms

\* C16: promotion is atomic against the commands that run at the awaits of
\* confirm: no two confirms store the same proposal, no confirm is left by an
\* exception when it clears the proposal, and a confirm clears only the
\* proposal it stored, so that the proposal of a new handled meanwhile stays.
C16_PromotionAtomic ==
    /\ \A t \in TaskIds : tasks[t].pc # "raised"
    /\ \A t, u \in TaskIds :
           (t # u /\ tasks[t].wrote /\ tasks[u].wrote) => tasks[t].ver # tasks[u].ver
    /\ \A t \in TaskIds :
           tasks[t].popped # Absent => tasks[t].popped = Some(tasks[t].ver)

====
